---- MODULE Spec2Model ----
(***************************************************************************)
(* get-releasenote: extraction of one release's note from a changelog,     *)
(* with the validations that guard it.  Two pipelines are modelled: the    *)
(* class-based one (src/main.py, Controller.start with Parser) and the     *)
(* function-based one (src/src/main.py, main).                             *)
(*                                                                         *)
(* Text is a sequence of one-character strings; offsets are 0-based as in  *)
(* Python, so the character at offset i of t is t[i + 1].                  *)
(***************************************************************************)
EXTENDS Integers, Sequences, FiniteSets, TLC

(***************************************************************************)
(* Text primitives (str.strip, str.partition, str.startswith, slicing).    *)
(***************************************************************************)
Whitespace == {" ", "\n", "\t", "\r"}

DigitChars == {"0", "1", "2", "3", "4", "5", "6", "7", "8", "9"}

\* A wider class, one that lets the token hold a ".devN" segment.
VerCharsWithDev == DigitChars \cup {".", "a", "b", "c", "r", "d", "e", "v"}

\* The character class [0-9.abcr] of the heading's version token.
VerChars == DigitChars \cup {".", "a", "b", "c", "r"}

RECURSIVE LStrip(_)
LStrip(s) ==
    IF s = <<>> THEN s
    ELSE IF Head(s) \in Whitespace THEN LStrip(Tail(s)) ELSE s

RECURSIVE RStrip(_)
RStrip(s) ==
    IF s = <<>> THEN s
    ELSE IF s[Len(s)] \in Whitespace THEN RStrip(SubSeq(s, 1, Len(s) - 1)) ELSE s

\* str.strip()
Strip(s) == RStrip(LStrip(s))

\* t[a:b] for 0 <= a, b <= len(t)
Slice(t, a, b) == SubSeq(t, a + 1, b)

\* t.startswith(p, i)
StartsWithAt(t, i, p) ==
    /\ i + Len(p) <= Len(t)
    /\ \A k \in 1..Len(p) : t[i + k] = p[k]

\* t.find(p, from): the least offset >= from where p occurs, or -1
FindFrom(t, p, from) ==
    LET hits == {i \in from..Len(t) : StartsWithAt(t, i, p)}
    IN  IF hits = {} THEN -1 ELSE CHOOSE i \in hits : \A j \in hits : i <= j

\* t.partition(sep): <<before, sep or "", after>>
Partition(t, sep) ==
    LET i == FindFrom(t, sep, 0)
    IN  IF i < 0
        THEN [before |-> t, sep |-> <<>>, after |-> <<>>]
        ELSE [before |-> Slice(t, 0, i), sep |-> sep,
              after |-> Slice(t, i + Len(sep), Len(t))]

\* The length of the longest run of characters of S starting at offset i.
Run(t, i, S) ==
    CHOOSE n \in 0..(Len(t) - i) :
        /\ \A k \in 1..n : t[i + k] \in S
        /\ (i + n = Len(t) \/ t[i + n + 1] \notin S)

RECURSIVE Flatten(_)
Flatten(ss) == IF ss = <<>> THEN <<>> ELSE Head(ss) \o Flatten(Tail(ss))

(***************************************************************************)
(* The heading pattern.  head_line is a template of literal characters     *)
(* and the three placeholders {version}, {date}, {name}; format() turns it *)
(* into a pattern of atoms, which match()/search() run with Python's       *)
(* backtracking order (greedy repeats give back one character at a time,   *)
(* an optional group is tried before its absence).                         *)
(***************************************************************************)
Lit(c) == [kind |-> "lit", ch |-> c]
VersionField == [kind |-> "version", ch |-> ""]
DateField == [kind |-> "date", ch |-> ""]
NameField == [kind |-> "name", ch |-> ""]
VerGroup == [kind |-> "vergroup", ch |-> ""]
DigitsPlus == [kind |-> "digits", ch |-> ""]

Lits(s) == [k \in 1..Len(s) |-> Lit(s[k])]

\* The class-based substitution without its brackets.
VersionPatternClassBare == <<VerGroup>>

\* version=r"\[(?P<version>[0-9][0-9.abcr]+(\.post[0-9]+)?)\]"
VersionPatternClass == <<Lit("["), VerGroup, Lit("]")>>

\* version=r"(?P<version>[0-9][0-9.abcr]+(\.post[0-9]+)?)"
VersionPatternFunc == <<VerGroup>>

\* date=r"\d+-\d+-\d+"
DatePattern == <<DigitsPlus, Lit("-"), DigitsPlus, Lit("-"), DigitsPlus>>

\* head_line.format(version=..., date=..., name=...)
Format(head_line, versionPattern, name) ==
    Flatten([k \in 1..Len(head_line) |->
        CASE head_line[k].kind = "version" -> versionPattern
          [] head_line[k].kind = "date" -> DatePattern
          [] head_line[k].kind = "name" -> Lits(name)
          [] OTHER -> <<head_line[k]>>])

DotPost == <<".", "p", "o", "s", "t">>

\* The ends of (\.post[0-9]+)? at offset j, in the order the matcher tries them.
PostEnds(t, j) ==
    LET d == IF StartsWithAt(t, j, DotPost) THEN Run(t, j + 5, DigitChars) ELSE 0
    IN  [k \in 1..d |-> j + 5 + (d + 1 - k)] \o <<j>>

\* The ends of [0-9][0-9.abcr]+(\.post[0-9]+)? at offset i, in matcher order.
VerGroupEnds(t, i) ==
    IF ~(i < Len(t) /\ t[i + 1] \in DigitChars) THEN <<>>
    ELSE LET m == Run(t, i + 1, VerChars)
         IN  Flatten([k \in 1..m |-> PostEnds(t, i + 1 + (m + 1 - k))])

\* The ends of one atom at offset i, in matcher order.
AtomEnds(atom, t, i) ==
    CASE atom.kind = "lit" ->
            IF i < Len(t) /\ t[i + 1] = atom.ch THEN <<i + 1>> ELSE <<>>
      [] atom.kind = "digits" ->
            LET d == Run(t, i, DigitChars) IN [k \in 1..d |-> i + (d + 1 - k)]
      [] atom.kind = "vergroup" -> VerGroupEnds(t, i)
      [] OTHER -> <<>>

\* Every way atoms k.. match t from offset i, in matcher order; ver is the
\* text captured by the version group so far.
RECURSIVE MatchFrom(_, _, _, _, _)
MatchFrom(pat, k, t, i, ver) ==
    IF k > Len(pat) THEN <<[end |-> i, version |-> ver]>>
    ELSE LET ends == AtomEnds(pat[k], t, i)
         IN  Flatten([n \in 1..Len(ends) |->
                 MatchFrom(pat, k + 1, t, ends[n],
                           IF pat[k].kind = "vergroup"
                           THEN Slice(t, i, ends[n]) ELSE ver)])

\* Python's None for a match object.
NoMatch == [start |-> -1, end |-> -1, version |-> <<>>]

\* head_re.match(msg, i) attempted at offset i only: the first way, or None.
MatchAt(pat, t, i) ==
    LET ways == MatchFrom(pat, 1, t, i, <<>>)
    IN  IF ways = <<>> THEN NoMatch
        ELSE [start |-> i, end |-> ways[1].end, version |-> ways[1].version]

\* head_re.search(msg, pos): the leftmost match starting at or after pos.
ReSearch(pat, t, pos) ==
    LET hits == {i \in pos..Len(t) : MatchAt(pat, t, i) # NoMatch}
    IN  IF hits = {} THEN NoMatch
        ELSE MatchAt(pat, t, CHOOSE i \in hits : \A j \in hits : i <= j)

\* The first heading found by search() instead of match().
ReMatchUnanchored(pat, t) == ReSearch(pat, t, 0)

\* head_re.match(msg)
ReMatch(pat, t) == MatchAt(pat, t, 0)

\* re.sub(regex, repl, t) for a regex and a replacement of literal characters.
RECURSIVE ReSub(_, _, _)
ReSub(regex, repl, t) ==
    IF t = <<>> THEN <<>>
    ELSE IF StartsWithAt(t, 0, regex)
         THEN repl \o ReSub(regex, repl, Slice(t, Len(regex), Len(t)))
         ELSE <<Head(t)>> \o ReSub(regex, repl, Tail(t))

(***************************************************************************)
(* packaging.version.parse, as the pipelines use it: a version string is   *)
(* either invalid (the call raises InvalidVersion) or parsed into a        *)
(* release tuple with optional pre-, post- and dev-release parts (PEP 440  *)
(* without epoch and local version), ordered by the library's sort key.    *)
(***************************************************************************)
DigitSeq == <<"0", "1", "2", "3", "4", "5", "6", "7", "8", "9">>

DigitVal(c) == (CHOOSE d \in 1..10 : DigitSeq[d] = c) - 1

\* int(t[i : i + n])
RECURSIVE Num(_, _, _)
Num(t, i, n) ==
    IF n = 0 THEN 0 ELSE Num(t, i, n - 1) * 10 + DigitVal(t[i + n])

Separators == {"-", "_", "."}

OptSep(t, i) == IF i < Len(t) /\ t[i + 1] \in Separators THEN i + 1 ELSE i

\* [0-9]+(?:\.[0-9]+)* at offset i: the numbers and the end, or end = -1.
RECURSIVE ReleaseAt(_, _)
ReleaseAt(t, i) ==
    LET d == Run(t, i, DigitChars)
        e == i + d
    IN  IF d = 0 THEN [nums |-> <<>>, end |-> -1]
        ELSE IF e < Len(t) /\ t[e + 1] = "." /\ Run(t, e + 1, DigitChars) > 0
             THEN LET more == ReleaseAt(t, e + 1)
                  IN  [nums |-> <<Num(t, i, d)>> \o more.nums, end |-> more.end]
             ELSE [nums |-> <<Num(t, i, d)>>, end |-> e]

Word(lit, rank) == [lit |-> lit, rank |-> rank]

\* alpha|a|beta|b|preview|pre|c|rc, with the rank of the normalized letter
PreWords ==
    << Word(<<"a", "l", "p", "h", "a">>, 0), Word(<<"a">>, 0),
       Word(<<"b", "e", "t", "a">>, 1), Word(<<"b">>, 1),
       Word(<<"p", "r", "e", "v", "i", "e", "w">>, 2), Word(<<"p", "r", "e">>, 2),
       Word(<<"c">>, 2), Word(<<"r", "c">>, 2) >>

\* post|rev|r
PostWords ==
    << Word(<<"p", "o", "s", "t">>, 0), Word(<<"r", "e", "v">>, 0), Word(<<"r">>, 0) >>

DevWords == << Word(<<"d", "e", "v">>, 0) >>

\* [-_.]?(word)[-_.]?([0-9]+)? at offset i
Tagged(t, i, words) ==
    LET j == OptSep(t, i)
        hits == {k \in 1..Len(words) : StartsWithAt(t, j, words[k].lit)}
    IN  IF hits = {} THEN [found |-> FALSE, end |-> i, rank |-> 0, n |-> 0]
        ELSE LET k == CHOOSE x \in hits : \A y \in hits : x <= y
                 s2 == OptSep(t, j + Len(words[k].lit))
                 d == Run(t, s2, DigitChars)
             IN  [found |-> TRUE, end |-> s2 + d, rank |-> words[k].rank,
                  n |-> Num(t, s2, d)]

\* The post-release part: -N, or a tagged one.
PostAt(t, i) ==
    IF i < Len(t) /\ t[i + 1] = "-" /\ Run(t, i + 1, DigitChars) > 0
    THEN LET d == Run(t, i + 1, DigitChars)
         IN  [found |-> TRUE, end |-> i + 1 + d, rank |-> 0, n |-> Num(t, i + 1, d)]
    ELSE Tagged(t, i, PostWords)

RECURSIVE StripZeros(_)
StripZeros(nums) ==
    IF nums # <<>> /\ nums[Len(nums)] = 0
    THEN StripZeros(SubSeq(nums, 1, Len(nums) - 1)) ELSE nums

\* What stands for the InvalidVersion the library raises.
InvalidVersion ==
    [valid |-> FALSE, release |-> <<>>, pre |-> <<>>, post |-> <<>>, dev |-> <<>>]

\* parse_version(s); an absent part is the empty tuple.
parse_version(s) ==
    LET i0 == IF s # <<>> /\ s[1] = "v" THEN 1 ELSE 0
        rel == ReleaseAt(s, i0)
    IN  IF rel.end < 0 THEN InvalidVersion
        ELSE LET pre == Tagged(s, rel.end, PreWords)
                 post == PostAt(s, pre.end)
                 dev == Tagged(s, post.end, DevWords)
             IN  IF dev.end # Len(s) THEN InvalidVersion
                 ELSE [valid |-> TRUE, release |-> rel.nums,
                       pre |-> IF pre.found THEN <<pre.rank, pre.n>> ELSE <<>>,
                       post |-> IF post.found THEN <<post.n>> ELSE <<>>,
                       dev |-> IF dev.found THEN <<dev.n>> ELSE <<>>]

is_prerelease(v) == v.dev # <<>> \/ v.pre # <<>>

is_devrelease(v) == v.dev # <<>>

\* The library's sort key after the release: pre, post, dev with their
\* infinities for an absent part.
KeyTail(v) ==
    (IF v.pre = <<>>
     THEN (IF v.post = <<>> /\ v.dev # <<>> THEN <<-1, 0>> ELSE <<3, 0>>)
     ELSE v.pre)
    \o (IF v.post = <<>> THEN <<-1>> ELSE v.post)
    \o (IF v.dev = <<>> THEN <<1, 0>> ELSE <<0>> \o v.dev)

\* Python's tuple order on sequences of integers.
RECURSIVE TupleLess(_, _)
TupleLess(a, b) ==
    IF b = <<>> THEN FALSE
    ELSE IF a = <<>> THEN TRUE
    ELSE IF Head(a) # Head(b) THEN Head(a) < Head(b)
    ELSE TupleLess(Tail(a), Tail(b))

\* dver < fver
VersionLess(dver, fver) ==
    LET dr == StripZeros(dver.release)
        fr == StripZeros(fver.release)
    IN  IF dr # fr THEN TupleLess(dr, fr)
        ELSE TupleLess(KeyTail(dver), KeyTail(fver))

(***************************************************************************)
(* VERSION_RE with re.MULTILINE, and its search: at the start of a line,  *)
(* the name __version__ or version, spaces, =, spaces, a quote, the        *)
(* characters up to the same quote (none of them a line break), the quote. *)
(***************************************************************************)
VersionNames ==
    << <<"_", "_", "v", "e", "r", "s", "i", "o", "n", "_", "_">>,
       <<"v", "e", "r", "s", "i", "o", "n">> >>

Quotes == {"\"", "'"}

\* The length of the longest run of characters outside S starting at offset i.
RunNot(t, i, S) ==
    CHOOSE n \in 0..(Len(t) - i) :
        /\ \A k \in 1..n : t[i + k] \notin S
        /\ (i + n = Len(t) \/ t[i + n + 1] \in S)

\* The offsets ^ matches at under re.MULTILINE.
LineStarts(t) == {0} \cup {i \in 1..Len(t) : t[i] = "\n"}

\* VERSION_RE matched at offset i: group(2), or found = FALSE.
VersionReAt(t, i) ==
    LET names == {k \in 1..2 : StartsWithAt(t, i, VersionNames[k])}
    IN  IF names = {} THEN [found |-> FALSE, value |-> <<>>]
        ELSE LET k == CHOOSE x \in names : \A y \in names : x <= y
                 e == i + Len(VersionNames[k])
                 eq == e + Run(t, e, {" "})
             IN  IF ~(eq < Len(t) /\ t[eq + 1] = "=")
                 THEN [found |-> FALSE, value |-> <<>>]
                 ELSE LET q == eq + 1 + Run(t, eq + 1, {" "})
                      IN  IF ~(q < Len(t) /\ t[q + 1] \in Quotes)
                          THEN [found |-> FALSE, value |-> <<>>]
                          ELSE LET n == RunNot(t, q + 1, {t[q + 1], "\n"})
                                   c == q + 1 + n
                               IN  IF c < Len(t) /\ t[c + 1] = t[q + 1]
                                   THEN [found |-> TRUE,
                                         value |-> Slice(t, q + 1, c)]
                                   ELSE [found |-> FALSE, value |-> <<>>]

\* VERSION_RE without its ^: an assignment anywhere in a line.
VersionReSearchAnywhere(t) ==
    LET hits == {i \in 0..Len(t) : VersionReAt(t, i).found}
    IN  IF hits = {} THEN [found |-> FALSE, value |-> <<>>]
        ELSE VersionReAt(t, CHOOSE i \in hits : \A j \in hits : i <= j)

\* VERSION_RE.search(txt)
VersionReSearch(t) ==
    LET hits == {i \in LineStarts(t) : VersionReAt(t, i).found}
    IN  IF hits = {} THEN [found |-> FALSE, value |-> <<>>]
        ELSE VersionReAt(t, CHOOSE i \in hits : \A j \in hits : i <= j)

(***************************************************************************)
(* The validations, as functions of their arguments.  A result is the      *)
(* ValueError raised (error, by the message it carries) or the value       *)
(* returned.                                                               *)
(***************************************************************************)
\* The messages of the errors raised.
NoVersionSource == "No one of 'version', 'version_file' is set"
AmbiguousVersion == "version and version_file arguments are ambiguous"
FileMissing == "file doesn't exist"
NoVersionInFile == "Unable to determine version in file"
NotATag == "Git head doesn't point at a tag"
TagMismatch == "Git tag mismatches with version"
FixIssueUnpaired == "fix_issue_regex and fix_issue_repl should be used together"
InvalidVersionError == "InvalidVersion"
VersionOlder == "The distribution version is older. Hint: push git tag with the latest version."
VersionYounger == "The distribution version is younger. Hint: run 'towncrier' again."
EmptySeparator == "empty separator"
NoStartMark == "Cannot find TOWNCRIER start mark"
NoHeadMark == "Cannot find TOWNCRIER version head mark"

Raise(kind) == [error |-> kind, value |-> <<>>]

Return(v) == [error |-> "", value |-> v]

\* find_version(ctx, version_file, version); f is what ctx.read_file finds.
find_version(f, version_file, version) ==
    IF version = <<>> /\ version_file = <<>>
    THEN Raise(NoVersionSource)
    ELSE IF version # <<>>
    THEN IF version_file # <<>>
         THEN Raise(AmbiguousVersion)
         ELSE Return(version)
    ELSE IF f.state = "missing" THEN Raise(FileMissing)
    ELSE LET m == VersionReSearch(f.text)
         IN  IF m.found THEN Return(m.value)
             ELSE Raise(NoVersionInFile)

\* Whether find_version calls ctx.read_file.
find_version_reads(version_file, version) ==
    version = <<>> /\ version_file # <<>>

\* pre = "refs/tags/"
pre == <<"r", "e", "f", "s", "/", "t", "a", "g", "s", "/">>

\* check_head accepting any tag.
check_head_any_tag(version, head) ==
    IF head = <<>> \/ StartsWithAt(head, 0, pre) THEN Return(<<>>)
    ELSE Raise(NotATag)

\* check_head without the "v" + version alternative.
check_head_exact(version, head) ==
    IF head = <<>> THEN Return(<<>>)
    ELSE IF ~StartsWithAt(head, 0, pre)
    THEN Raise(NotATag)
    ELSE IF Slice(head, Len(pre), Len(head)) # version
    THEN Raise(TagMismatch)
    ELSE Return(<<>>)

\* check_head(version, head)
check_head(version, head) ==
    IF head = <<>> THEN Return(<<>>)
    ELSE IF ~StartsWithAt(head, 0, pre)
    THEN Raise(NotATag)
    ELSE LET tag == Slice(head, Len(pre), Len(head))
         IN  IF tag # version /\ tag # <<"v">> \o version
             THEN Raise(TagMismatch)
             ELSE Return(<<>>)

\* The test with its second half lost: a replacement without a regex passes.
check_fix_issue_half(fix_issue_regex, fix_issue_repl) ==
    IF fix_issue_regex # <<>> /\ ~(fix_issue_repl # <<>>)
    THEN Raise(FixIssueUnpaired)
    ELSE Return(<<>>)

\* check_fix_issue(fix_issue_regex, fix_issue_repl), and the same test at the
\* head of Parser.parse
check_fix_issue(fix_issue_regex, fix_issue_repl) ==
    IF \/ (fix_issue_regex # <<>> /\ ~(fix_issue_repl # <<>>))
       \/ (~(fix_issue_regex # <<>>) /\ fix_issue_repl # <<>>)
    THEN Raise(FixIssueUnpaired)
    ELSE Return(<<>>)

\* check_changes_version with the comparison turned round.
check_changes_version_reversed(declared_version, found_version) ==
    IF declared_version = found_version THEN Return(<<>>)
    ELSE LET dver == parse_version(declared_version)
             fver == parse_version(found_version)
         IN  IF ~dver.valid \/ ~fver.valid THEN Raise(InvalidVersionError)
             ELSE IF VersionLess(fver, dver)
             THEN Raise(VersionOlder)
             ELSE Raise(VersionYounger)

\* check_changes_version comparing the parsed versions only: versions that
\* tie pass.
check_changes_version_parsed(declared_version, found_version) ==
    LET dver == parse_version(declared_version)
        fver == parse_version(found_version)
    IN  IF ~dver.valid \/ ~fver.valid
        THEN (IF declared_version = found_version THEN Return(<<>>)
              ELSE Raise(InvalidVersionError))
        ELSE IF VersionLess(dver, fver)
        THEN Raise(VersionOlder)
        ELSE IF VersionLess(fver, dver)
        THEN Raise(VersionYounger)
        ELSE Return(<<>>)

\* check_changes_version(declared_version, found_version)
check_changes_version(declared_version, found_version) ==
    IF declared_version = found_version THEN Return(<<>>)
    ELSE LET dver == parse_version(declared_version)
             fver == parse_version(found_version)
         IN  IF ~dver.valid \/ ~fver.valid THEN Raise(InvalidVersionError)
             ELSE IF VersionLess(dver, fver)
             THEN Raise(VersionOlder)
             ELSE Raise(VersionYounger)

\* The substitution for {version} each pipeline hands to head_line.format.
VersionPattern(pipeline) ==
    IF pipeline = "class" THEN VersionPatternClass ELSE VersionPatternFunc

\* head_re = re.compile(head_line.format(...), re.MULTILINE)
head_re(pipeline, head_line, name) ==
    Format(head_line, VersionPattern(pipeline), name)

\* The section taken to the end of msg whatever follows.
cut_section_to_end(pat, text, first) == Slice(text, first.end, Len(text))

\* The section of msg after the first heading match: up to the next match of
\* the heading, or to the end of msg.
cut_section(pat, text, first) ==
    LET match2 == ReSearch(pat, text, first.end)
    IN  IF match2 # NoMatch
        THEN Slice(text, first.end, match2.start)
        ELSE Slice(text, first.end, Len(text))

\* if fix_issue_regex: msg = re.sub(...); return msg.strip()
fix_issues(fix_issue_regex, fix_issue_repl, text) ==
    Strip(IF fix_issue_regex # <<>>
          THEN ReSub(fix_issue_regex, fix_issue_repl, text)
          ELSE text)

(***************************************************************************)
(* The state of a run.                                                     *)
(***************************************************************************)
VARIABLES
    env,            \* os.environ: the INPUT_* configuration
    files,          \* the version file and the changes file under root
    pipeline,       \* "class" (src/main.py) or "func" (src/src/main.py)
    pc,             \* the step the pipeline is at; "done" or "failed" at its end
    ctx_version,    \* Context.version
    version,        \* version = parse_version(ctx.version)
    msg,            \* the text parse() works on
    match,          \* the first heading's match
    note,           \* what parse() / parse_changes() returned
    shown,          \* the ::set-output facts printed
    written,        \* the texts written to output_file
    error,          \* the message of the ValueError that ended the run
    reads,          \* the files read, in order
    class_outcome   \* how the class-based run ended, kept for the comparison

vars ==
    <<env, files, pipeline, pc, ctx_version, version, msg, match, note, shown,
      written, error, reads, class_outcome>>

(***************************************************************************)
(* Bounds and input sets.                                                  *)
(***************************************************************************)
\* The most whitespace characters between the start mark and the first heading.
MaxGap == 1

\* The most older release sections after the first one.
MaxOlder == 1

V_1_0 == <<"1", ".", "0">>
V_1_0_0 == <<"1", ".", "0", ".", "0">>
V_1_1 == <<"1", ".", "1">>
V_0_9 == <<"0", ".", "9">>
V_1a == <<"1", "a">>
V_1dev1 == <<"1", ".", "d", "e", "v", "1">>
V_bad == <<"1", ".", ".">>

\* INPUT_VERSION: unset, releases that tie under the version order, a
\* pre-release, a dev-release, a string that is no version.
DeclaredVersions == {<<>>, V_1_0, V_1_0_0, V_1a, V_1dev1, V_bad}

\* The version tokens written in headings.
HeadingVersions == {V_1_0, V_1_0_0, V_1_1, V_0_9, V_1a, V_1dev1, V_bad}

VersionFileName == <<"f">>

\* The most lines of a version file.
MaxLines == 2

\* A line of a version file: assigns tells whether it is an assignment
\* VERSION_RE accepts, and value the version it assigns.
Line(text, assigns, value) == [text |-> text, assigns |-> assigns, value |-> value]

RECURSIVE JoinLines(_)
JoinLines(lines) ==
    IF lines = <<>> THEN <<>>
    ELSE IF Len(lines) = 1 THEN lines[1].text
    ELSE lines[1].text \o <<"\n">> \o JoinLines(Tail(lines))

Unread == [state |-> "unread", text |-> <<>>, lines |-> <<>>]
Missing == [state |-> "missing", text |-> <<>>, lines |-> <<>>]
File(lines) == [state |-> "file", text |-> JoinLines(lines), lines |-> lines]

VersionWord == <<"v", "e", "r", "s", "i", "o", "n">>
DunderVersionWord == <<"_", "_">> \o VersionWord \o <<"_", "_">>

\* One line of a version file: name, spaces, =, spaces, open quote, value,
\* close quote.
Assignment(name, sp, q1, value, q2) ==
    name \o sp \o <<"=">> \o sp \o <<q1>> \o value \o <<q2>>

Assigns(name, sp, q, value) == Line(Assignment(name, sp, q, value, q), TRUE, value)

NoAssignment(text) == Line(text, FALSE, <<>>)

\* Lines VERSION_RE accepts: both names, both quotes, with and without
\* spaces, an empty value, a value holding the other quote.
AssignmentLines ==
    { Assigns(VersionWord, <<" ">>, "\"", V_1_0),
      Assigns(DunderVersionWord, <<>>, "'", V_1a),
      Assigns(VersionWord, <<>>, "'", <<>>),
      Assigns(VersionWord, <<" ", " ">>, "\"", <<"1", "'", "0">>) }

\* Lines it does not: no assignment, mismatched quotes, an indented
\* assignment, another name, no quotes.
OtherLines ==
    { NoAssignment(<<"#", " ", "x">>),
      NoAssignment(Assignment(VersionWord, <<>>, "\"", V_1_1, "'")),
      NoAssignment(<<" ">> \o Assignment(VersionWord, <<>>, "'", V_1_1, "'")),
      NoAssignment(<<"x">> \o Assignment(VersionWord, <<>>, "'", V_1_1, "'")),
      NoAssignment(VersionWord \o <<"=">> \o V_1_1) }

\* Files of up to n lines.
RECURSIVE LinesUpTo(_)
LinesUpTo(n) ==
    IF n = 0 THEN {<<>>}
    ELSE LET shorter == LinesUpTo(n - 1)
         IN  shorter \cup {Append(ls, l) : ls \in shorter,
                                           l \in AssignmentLines \cup OtherLines}

\* What the version file may hold when find_version is run by itself.
AllVersionFiles == {Missing} \cup {File(ls) : ls \in LinesUpTo(MaxLines)}

\* What the version file may hold in a whole run.
VersionFiles ==
    { Missing,
      File(<<Assigns(VersionWord, <<" ">>, "\"", V_1_0)>>),
      File(<<NoAssignment(<<"#", " ", "x">>),
             Assigns(DunderVersionWord, <<>>, "'", V_1a)>>),
      File(<<NoAssignment(<<"x", "=", "1">>)>>) }

\* INPUT_CHECK_REF
CheckRefs ==
    { <<>>,
      <<"r", "e", "f", "s", "/", "h", "e", "a", "d", "s", "/", "m">>,
      pre \o V_1_0,
      pre \o <<"v">> \o V_1_0 }

FixIssueRegexes == {<<>>, <<"#">>}
FixIssueRepls == {<<>>, <<"@">>}

StartLine == <<"!", "!">>

\* INPUT_HEAD_LINE: "={version}" and "{name} {version} {date}"
HeadLines ==
    { <<Lit("="), VersionField>>,
      <<NameField, Lit(" "), VersionField, Lit(" "), DateField>> }

Name == <<"p">>

\* head_line with its {version} written in escaped brackets: \[{version}\]
Bracketed(head_line) ==
    Flatten([k \in 1..Len(head_line) |->
        IF head_line[k].kind = "version"
        THEN <<Lit("["), VersionField, Lit("]")>>
        ELSE <<head_line[k]>>])

SampleDate == <<"7", "-", "1", "-", "2">>

\* A heading as a changelog writes it for head_line, its version in square
\* brackets or bare.
RenderHead(head_line, name, ver, brackets) ==
    Flatten([k \in 1..Len(head_line) |->
        CASE head_line[k].kind = "version" ->
                IF brackets THEN <<"[">> \o ver \o <<"]">> ELSE ver
          [] head_line[k].kind = "date" -> SampleDate
          [] head_line[k].kind = "name" -> name
          [] OTHER -> <<head_line[k].ch>>])

Section(ver, body) == [version |-> ver, body |-> body]

\* A changelog from its parts: the prose before the start mark, the mark (or
\* not), what separates it from the first heading, and the release sections.
Changes(e, before, mark, lead, brackets, sections) ==
    [state |-> "file",
     text |-> before \o (IF mark THEN e.start_line ELSE <<>>) \o lead
              \o Flatten([k \in 1..Len(sections) |->
                    RenderHead(e.head_line, e.name, sections[k].version, brackets)
                    \o sections[k].body]),
     mark |-> mark, lead |-> lead, brackets |-> brackets, sections |-> sections]

NoChanges(state) ==
    [state |-> state, text |-> <<>>, mark |-> FALSE, lead |-> <<>>,
     brackets |-> FALSE, sections |-> <<>>]

OlderSection == Section(V_0_9, <<"\n", "y", " ", "#", "\n">>)

\* 0..n older sections
OlderSections(n) == {[k \in 1..m |-> OlderSection] : m \in 0..n}

\* Whitespace of up to n characters.
RECURSIVE Gaps(_)
Gaps(n) ==
    IF n = 0 THEN {<<>>}
    ELSE LET shorter == Gaps(n - 1)
         IN  shorter \cup {Append(g, c) : g \in shorter, c \in {" ", "\n"}}

\* What the changes file may hold in a whole run.
ChangesFiles(e) ==
    {NoChanges("missing")}
    \cup { Changes(e, <<"t", "\n">>, ml[1], ml[2], brackets,
                   <<Section(ver, <<"\n", " ", "x", "#", "\n">>)>> \o older) :
             ml \in ({TRUE, FALSE} \X Gaps(MaxGap)) \cup {<<TRUE, <<"z", "\n">>>>},
             brackets \in BOOLEAN,
             ver \in HeadingVersions,
             older \in OlderSections(MaxOlder) }

(***************************************************************************)
(* The two pipelines, step by step.  A file's content is fixed for the run *)
(* and becomes known when it is first read.                                *)
(***************************************************************************)
Environment(ver, version_file, check_ref, regex, repl, start_line, head_line, head_line_func, name) ==
    [version |-> ver, version_file |-> version_file, check_ref |-> check_ref,
     fix_issue_regex |-> regex, fix_issue_repl |-> repl,
     start_line |-> start_line,
     \* INPUT_HEAD_LINE of the class-based run and of the function-based run
     head_line |-> head_line, head_line_func |-> head_line_func,
     name |-> name]

\* A pipeline about to start.
Fresh(p) ==
    /\ pipeline = p
    /\ pc = "find_version"
    /\ ctx_version = <<>>
    /\ version = InvalidVersion
    /\ msg = <<>>
    /\ match = NoMatch
    /\ note = <<>>
    /\ shown = <<>>
    /\ written = <<>>
    /\ error = ""
    /\ reads = <<>>

NoOutcome == [pc |-> "", error |-> "", shown |-> <<>>, written |-> <<>>]

\* How a run ended: its exit, the error, the facts printed, the note written.
Outcome == [pc |-> pc, error |-> error, shown |-> shown, written |-> written]

Init ==
    /\ \E ver \in DeclaredVersions, version_file \in {<<>>, VersionFileName},
          check_ref \in CheckRefs, regex \in FixIssueRegexes,
          repl \in FixIssueRepls, head_line \in HeadLines, brackets \in BOOLEAN :
            env = Environment(ver, version_file, check_ref, regex, repl,
                              StartLine, head_line,
                              IF brackets THEN Bracketed(head_line) ELSE head_line,
                              Name)
    /\ files = [version_file |-> Unread, changes |-> NoChanges("unread")]
    /\ Fresh("class")
    /\ class_outcome = NoOutcome

\* The contents a file may turn out to have when it is read.
Contents(known, possible) == IF known.state = "unread" THEN possible ELSE {known}

\* The pipeline's INPUT_HEAD_LINE.
HeadLineRead == IF pipeline = "class" THEN env.head_line ELSE env.head_line_func

\* The step after the version is parsed, and after each of the two checks.
AfterParseVersion == IF pipeline = "class" THEN "check_fix_issue" ELSE "check_head"
AfterCheckFixIssue == IF pipeline = "class" THEN "check_head" ELSE "read_changes"
AfterCheckHead == IF pipeline = "class" THEN "read_changes" ELSE "check_fix_issue"

\* A step that ends in `result`: the exception propagates to the top level, or
\* the pipeline goes on to `next`.
Continue(result, next) ==
    /\ pc' = IF result.error # "" THEN "failed" ELSE next
    /\ error' = result.error

\* ctx.version = find_version(ctx, version_file, version)
FindVersion ==
    /\ pc = "find_version"
    /\ \E f \in IF find_version_reads(env.version_file, env.version)
                THEN Contents(files.version_file, VersionFiles)
                ELSE {files.version_file} :
          LET r == find_version(f, env.version_file, env.version)
          IN  /\ files' = [files EXCEPT !.version_file = f]
              /\ reads' = IF find_version_reads(env.version_file, env.version)
                          THEN Append(reads, "version_file") ELSE reads
              /\ ctx_version' = IF r.error = "" THEN r.value ELSE ctx_version
              /\ Continue(r, "parse_version")
    /\ UNCHANGED <<env, pipeline, version, msg, match, note, shown, written,
                   class_outcome>>

\* version = parse_version(ctx.version)
ParseVersion ==
    /\ pc = "parse_version"
    /\ LET parsed == parse_version(ctx_version)
       IN  /\ version' = parsed
           /\ Continue(IF parsed.valid THEN Return(<<>>)
                       ELSE Raise(InvalidVersionError), AfterParseVersion)
    /\ UNCHANGED <<env, files, pipeline, ctx_version, msg, match, note, shown,
                   written, reads, class_outcome>>

\* check_fix_issue(...): first in Parser.parse, first in parse_changes
CheckFixIssue ==
    /\ pc = "check_fix_issue"
    /\ Continue(check_fix_issue(env.fix_issue_regex, env.fix_issue_repl),
                AfterCheckFixIssue)
    /\ UNCHANGED <<env, files, pipeline, ctx_version, version, msg, match, note,
                   shown, written, reads, class_outcome>>

\* check_head(ctx.version, INPUT_CHECK_REF): in Parser.parse after the
\* fix_issue test, in main before parse_changes
CheckHead ==
    /\ pc = "check_head"
    /\ Continue(check_head(ctx_version, env.check_ref), AfterCheckHead)
    /\ UNCHANGED <<env, files, pipeline, ctx_version, version, msg, match, note,
                   shown, written, reads, class_outcome>>

\* changes = ctx.read_file(changes_file)
ReadChanges ==
    /\ pc = "read_changes"
    /\ \E f \in Contents(files.changes, ChangesFiles(env)) :
          /\ files' = [files EXCEPT !.changes = f]
          /\ msg' = f.text
          /\ Continue(IF f.state = "missing" THEN Raise(FileMissing)
                      ELSE Return(<<>>), "start_mark")
    /\ reads' = Append(reads, "changes_file")
    /\ UNCHANGED <<env, pipeline, ctx_version, version, match, note, shown,
                   written, class_outcome>>

\* _, sep, msg = changes.partition(start_line); if not sep: raise
StartMark ==
    /\ pc = "start_mark"
    /\ LET parts == Partition(msg, env.start_line)
       IN  /\ msg' = parts.after
           /\ Continue(IF env.start_line = <<>> THEN Raise(EmptySeparator)
                       ELSE IF parts.sep = <<>>
                       THEN Raise(NoStartMark)
                       ELSE Return(<<>>), "head_match")
    /\ UNCHANGED <<env, files, pipeline, ctx_version, version, match, note,
                   shown, written, reads, class_outcome>>

\* msg = msg.strip(); match = head_re.match(msg); if match is None: raise
HeadMatch ==
    /\ pc = "head_match"
    /\ LET stripped == Strip(msg)
           first == ReMatch(head_re(pipeline, HeadLineRead, env.name), stripped)
       IN  /\ msg' = stripped
           /\ match' = first
           /\ Continue(IF first = NoMatch
                       THEN Raise(NoHeadMark)
                       ELSE Return(<<>>), "check_changes_version")
    /\ UNCHANGED <<env, files, pipeline, ctx_version, version, note, shown,
                   written, reads, class_outcome>>

\* found_version = match.group("version"); check_changes_version(...)
CheckChangesVersion ==
    /\ pc = "check_changes_version"
    /\ Continue(check_changes_version(ctx_version, match.version), "cut_section")
    /\ UNCHANGED <<env, files, pipeline, ctx_version, version, msg, match, note,
                   shown, written, reads, class_outcome>>

\* match2 = head_re.search(msg, match.end()); msg = msg[match.end() : ...]
CutSection ==
    /\ pc = "cut_section"
    /\ msg' = cut_section(head_re(pipeline, HeadLineRead, env.name), msg, match)
    /\ pc' = "fix_issues"
    /\ UNCHANGED <<env, files, pipeline, ctx_version, version, match, note,
                   shown, written, error, reads, class_outcome>>

\* if fix_issue_regex: msg = re.sub(...); return msg.strip()
FixIssues ==
    /\ pc = "fix_issues"
    /\ note' = fix_issues(env.fix_issue_regex, env.fix_issue_repl, msg)
    /\ pc' = "show"
    /\ UNCHANGED <<env, files, pipeline, ctx_version, version, msg, match, shown,
                   written, error, reads, class_outcome>>

\* Output(...).show(), and the three prints of main
Show ==
    /\ pc = "show"
    /\ shown' = Append(shown, [version |-> ctx_version,
                               prerelease |-> is_prerelease(version),
                               devrelease |-> is_devrelease(version)])
    /\ pc' = "write"
    /\ UNCHANGED <<env, files, pipeline, ctx_version, version, msg, match, note,
                   written, error, reads, class_outcome>>

\* (root / output_file).write_text(note)
WriteNote ==
    /\ pc = "write"
    /\ written' = Append(written, note)
    /\ pc' = "done"
    /\ UNCHANGED <<env, files, pipeline, ctx_version, version, msg, match, note,
                   shown, error, reads, class_outcome>>

\* The class-based run has ended: the function-based pipeline is run on the
\* same environment and files.
RunFunc ==
    /\ pipeline = "class"
    /\ pc \in {"done", "failed"}
    /\ class_outcome' = Outcome
    /\ pipeline' = "func"
    /\ pc' = "find_version"
    /\ ctx_version' = <<>>
    /\ version' = InvalidVersion
    /\ msg' = <<>>
    /\ match' = NoMatch
    /\ note' = <<>>
    /\ shown' = <<>>
    /\ written' = <<>>
    /\ error' = ""
    /\ reads' = <<>>
    /\ UNCHANGED <<env, files>>

Next ==
    \/ FindVersion
    \/ ParseVersion
    \/ CheckFixIssue
    \/ CheckHead
    \/ ReadChanges
    \/ StartMark
    \/ HeadMatch
    \/ CheckChangesVersion
    \/ CutSection
    \/ FixIssues
    \/ Show
    \/ WriteNote
    \/ RunFunc

Spec == Init /\ [][Next]_vars

(***************************************************************************)
(* Single operations run by themselves, on wider inputs than a whole run   *)
(* draws.                                                                  *)
(***************************************************************************)
Pipelines == {"class", "func"}

DefaultHeadLine == <<Lit("="), VersionField>>

\* An environment in which only the version source is of interest.
VersionEnvironment(ver, version_file, check_ref) ==
    Environment(ver, version_file, check_ref, <<>>, <<>>, StartLine,
                DefaultHeadLine, DefaultHeadLine, Name)

\* find_version on every version source and version file.
InitFindVersion ==
    /\ \E ver \in DeclaredVersions, version_file \in {<<>>, VersionFileName} :
          env = VersionEnvironment(ver, version_file, <<>>)
    /\ \E f \in AllVersionFiles :
          files = [version_file |-> f, changes |-> NoChanges("unread")]
    /\ \E p \in Pipelines : Fresh(p)
    /\ class_outcome = NoOutcome

SpecFindVersion == InitFindVersion /\ [][FindVersion]_vars

RefPrefixes ==
    { <<>>, pre,
      <<"r", "e", "f", "s", "/", "t", "a", "g", "s">>,
      <<"r", "e", "f", "s", "/", "h", "e", "a", "d", "s", "/">>,
      <<"x">> \o pre }

RefTags ==
    { <<>>, V_1_0, V_1_0_0, V_1a, <<"v">>, <<"v">> \o V_1_0, <<"v">> \o V_1a,
      <<"v", "v">> \o V_1_0, <<"V">> \o V_1_0, V_1_0 \o <<"v">> }

\* Git refs of every prefix and tag, and no ref.
AllCheckRefs == {prefix \o tag : prefix \in RefPrefixes, tag \in RefTags}

\* check_head on every version and ref.
InitCheckHead ==
    /\ \E p \in Pipelines, ver \in {<<>>, V_1_0, V_1_0_0, V_1a},
          check_ref \in AllCheckRefs :
          /\ env = VersionEnvironment(ver, <<>>, check_ref)
          /\ pipeline = p
          /\ ctx_version = ver
          /\ version = parse_version(ver)
    /\ files = [version_file |-> Unread, changes |-> NoChanges("unread")]
    /\ pc = "check_head"
    /\ msg = <<>>
    /\ match = NoMatch
    /\ note = <<>>
    /\ shown = <<>>
    /\ written = <<>>
    /\ error = ""
    /\ reads = <<>>
    /\ class_outcome = NoOutcome

SpecCheckHead == InitCheckHead /\ [][CheckHead]_vars

\* The longest version string compared.
MaxVerLen == 3

VersionAlphabet == {"0", "1", ".", "a"}

\* Strings of up to n characters.
RECURSIVE Strings(_)
Strings(n) ==
    IF n = 0 THEN {<<>>}
    ELSE LET shorter == Strings(n - 1)
         IN  shorter \cup {Append(w, c) : w \in shorter, c \in VersionAlphabet}

\* The strings the heading's version group can capture.
IsToken(w) == Len(w) >= 2 /\ w[1] \in DigitChars /\ \A k \in 2..Len(w) : w[k] \in VerChars

\* check_changes_version on every pair of a declared version and a token.
InitCompare ==
    /\ \E p \in Pipelines, declared \in Strings(MaxVerLen) \cup {V_1dev1},
          found \in {w \in Strings(MaxVerLen) : IsToken(w)} :
          /\ env = VersionEnvironment(declared, <<>>, <<>>)
          /\ pipeline = p
          /\ ctx_version = declared
          /\ version = parse_version(declared)
          /\ match = [start |-> 0, end |-> Len(found), version |-> found]
    /\ files = [version_file |-> Unread, changes |-> NoChanges("unread")]
    /\ pc = "check_changes_version"
    /\ msg = <<>>
    /\ note = <<>>
    /\ shown = <<>>
    /\ written = <<>>
    /\ error = ""
    /\ reads = <<>>
    /\ class_outcome = NoOutcome

SpecCompare == InitCompare /\ [][CheckChangesVersion]_vars

StartLines == {<<"!">>, StartLine}

Bodies ==
    { <<"\n", " ", "x", "#", "\n">>,
      <<"\n">>,
      <<"\n", "x", " ", "y", "\n", "\n">>,
      <<" ", "#", "!", "!", "x">> }

Chars(text) == {text[k] : k \in 1..Len(text)}

\* Changelogs of every shape: prose, or a heading, before the start mark; the
\* mark or none; whitespace, or text, before the first heading; versions in
\* brackets or bare; bodies; older sections.  A changelog without the mark
\* has no "!" at all.
AllChanges(e) ==
    { Changes(e, before, ml[1], ml[2], brackets, <<Section(ver, body)>> \o older) :
        before \in {<<>>, <<"t", "\n">>,
                    RenderHead(e.head_line, e.name, V_1_1, TRUE) \o <<"\n">>},
        ml \in BOOLEAN \X (Gaps(MaxGap) \cup {<<"z", "\n">>}),
        brackets \in BOOLEAN,
        ver \in HeadingVersions,
        body \in Bodies,
        older \in OlderSections(MaxOlder) }

\* The extraction, from the changes text on, on every changelog.
InitExtract ==
    /\ \E p \in Pipelines, ver \in {V_1_0, V_1a}, fix \in BOOLEAN,
          start_line \in StartLines, head_line \in HeadLines :
          /\ env = Environment(ver, <<>>, <<>>,
                               IF fix THEN <<"#">> ELSE <<>>,
                               IF fix THEN <<"@">> ELSE <<>>,
                               start_line, head_line, head_line, Name)
          /\ pipeline = p
          /\ ctx_version = ver
          /\ version = parse_version(ver)
          /\ \E f \in {d \in AllChanges(env) :
                          d.mark \/ "!" \notin Chars(d.sections[1].body)} :
                /\ files = [version_file |-> Unread, changes |-> f]
                /\ msg = f.text
    /\ pc = "start_mark"
    /\ match = NoMatch
    /\ note = <<>>
    /\ shown = <<>>
    /\ written = <<>>
    /\ error = ""
    /\ reads = <<"changes_file">>
    /\ class_outcome = NoOutcome

NextExtract ==
    \/ StartMark
    \/ HeadMatch
    \/ CheckChangesVersion
    \/ CutSection
    \/ FixIssues

SpecExtract == InitExtract /\ [][NextExtract]_vars

(***************************************************************************)
(* What the environment and the files say, independently of the run.       *)
(***************************************************************************)
\* The value of the first assignment among a version file's lines.
ExpectedVersion(f) ==
    LET hits == {k \in 1..Len(f.lines) : f.lines[k].assigns}
    IN  IF hits = {} THEN [found |-> FALSE, value |-> <<>>]
        ELSE [found |-> TRUE,
              value |-> f.lines[CHOOSE k \in hits : \A j \in hits : k <= j].value]

OnlyVersion == env.version # <<>> /\ env.version_file = <<>>
OnlyVersionFile == env.version = <<>> /\ env.version_file # <<>>

\* The version source resolves to a version string.
VersionResolves ==
    \/ OnlyVersion
    \/ /\ OnlyVersionFile
       /\ files.version_file.state = "file"
       /\ ExpectedVersion(files.version_file).found

Unpaired == (env.fix_issue_regex = <<>>) # (env.fix_issue_repl = <<>>)

HasTagPrefix(ref) == Len(ref) >= Len(pre) /\ SubSeq(ref, 1, Len(pre)) = pre

\* The ref is absent or names the tag of version v, with or without a "v".
RefAgrees(ref, v) == ref \in {<<>>, pre \o v, pre \o <<"v">> \o v}

\* The changes file has the start mark, then only whitespace, then a heading.
HeadingFirst ==
    /\ files.changes.state = "file"
    /\ files.changes.mark
    /\ Strip(files.changes.lead) = <<>>

\* The changelog writes its versions the way the pipeline's pattern wants.
StyleAccepted == files.changes.brackets = (pipeline = "class")

Ended == pc \in {"done", "failed"}

(***************************************************************************)
(* C1  With no issue rewrite configured, the note extracted from a         *)
(* changelog whose first heading carries the authoritative version is the  *)
(* trimmed body of the first section: the text between the first heading   *)
(* and the next one, or the end of the document; nothing of an older       *)
(* section is in it.                                                       *)
(***************************************************************************)
C1_NoteIsFirstSection ==
    (pc = "show" /\ env.fix_issue_regex = <<>>)
        => note = Strip(files.changes.sections[1].body)

C1_Witness ==
    /\ pc = "show"
    /\ env.fix_issue_regex = <<>>
    /\ Len(files.changes.sections) = 2
    /\ files.changes.lead # <<>>
    /\ note = <<"x", " ", "y">>

(***************************************************************************)
(* C2  Facts are printed and the note is written only in a run all of      *)
(* whose validations passed; a run that failed printed and wrote nothing;  *)
(* a run that succeeded printed the facts once and wrote exactly one note, *)
(* the one extracted.                                                      *)
(***************************************************************************)
AllValidationsPassed ==
    /\ VersionResolves
    /\ version.valid
    /\ RefAgrees(env.check_ref, ctx_version)
    /\ ~Unpaired
    /\ HeadingFirst
    /\ match # NoMatch
    /\ match.version = ctx_version

C2_AllOrNothing ==
    /\ (shown # <<>> \/ written # <<>>) => AllValidationsPassed
    /\ written # <<>> => shown # <<>>
    /\ pc = "failed" => (shown = <<>> /\ written = <<>> /\ error # "")
    /\ pc = "done" => (Len(shown) = 1 /\ written = <<note>> /\ error = "")

C2_Witness ==
    /\ pc = "done"
    /\ env.check_ref # <<>>
    /\ env.fix_issue_regex # <<>>
    /\ written = <<<<"x", "@">>>>

(***************************************************************************)
(* C3  For a declared version and a heading version that differ, a         *)
(* declared version strictly below the heading's fails as "older" with the *)
(* hint to push a git tag, one strictly above fails as "younger" with the  *)
(* hint to run towncrier again; no note is returned.                       *)
(***************************************************************************)
Declared == parse_version(ctx_version)
Found == parse_version(match.version)

C3_OlderYounger ==
    (pc # "check_changes_version" /\ ctx_version # match.version
     /\ Declared.valid /\ Found.valid)
        => /\ VersionLess(Declared, Found)
                => (pc = "failed" /\ error = VersionOlder /\ note = <<>>)
           /\ VersionLess(Found, Declared)
                => (pc = "failed" /\ error = VersionYounger /\ note = <<>>)

C3_Witness ==
    /\ pc = "failed"
    /\ error = VersionOlder
    /\ ctx_version = <<"1", "a">>
    /\ match.version = <<"1", ".", "0">>

(***************************************************************************)
(* C4  check_head does nothing for an empty ref; a ref without the prefix  *)
(* refs/tags/ fails; a ref with it passes exactly when the rest is the     *)
(* version or "v" + version.  The step changes nothing but the outcome.    *)
(***************************************************************************)
C4_CheckHead ==
    [][pc = "check_head" =>
        /\ (pc' # "failed") <=> RefAgrees(env.check_ref, ctx_version)
        /\ (env.check_ref # <<>> /\ ~HasTagPrefix(env.check_ref))
              => (pc' = "failed" /\ error' = NotATag)
        /\ (pc' = "failed" /\ HasTagPrefix(env.check_ref)) => error' = TagMismatch
        /\ UNCHANGED <<env, files, pipeline, ctx_version, version, msg, match,
                       note, shown, written, reads, class_outcome>>]_vars

C4_Witness ==
    /\ pc = "read_changes"
    /\ pipeline = "class"
    /\ ctx_version = V_1a
    /\ env.check_ref = pre \o <<"v">> \o V_1a

(***************************************************************************)
(* C5  find_version fails when neither or both of version and version_file *)
(* are given; version alone is returned as it is and no file is read;      *)
(* version_file alone is read and the value of its first assignment is     *)
(* returned, or the call fails; after a failure Context.version is unset.  *)
(***************************************************************************)
C5_FindVersion ==
    pc # "find_version" =>
        /\ (env.version = <<>> /\ env.version_file = <<>>)
              => (pc = "failed" /\ error = NoVersionSource)
        /\ (env.version # <<>> /\ env.version_file # <<>>)
              => (pc = "failed" /\ error = AmbiguousVersion)
        /\ OnlyVersion
              => (pc = "parse_version" /\ ctx_version = env.version /\ reads = <<>>)
        /\ OnlyVersionFile
              => /\ reads = <<"version_file">>
                 /\ IF VersionResolves
                    THEN /\ pc = "parse_version"
                         /\ ctx_version = ExpectedVersion(files.version_file).value
                    ELSE /\ pc = "failed"
                         /\ error = IF files.version_file.state = "missing"
                                    THEN FileMissing ELSE NoVersionInFile
        /\ pc = "failed" => ctx_version = <<>>

C5_Witness ==
    /\ pc = "parse_version"
    /\ OnlyVersionFile
    /\ Len(files.version_file.lines) = 2
    /\ ~files.version_file.lines[1].assigns
    /\ ctx_version = V_1a

(***************************************************************************)
(* C6  With exactly one of fix_issue_regex and fix_issue_repl set, the     *)
(* pipeline fails with "should be used together" before the changes file   *)
(* is read and before any start-mark, heading or comparison step, whatever *)
(* the changelog holds; with both or neither set the test passes.          *)
(***************************************************************************)
ExtractionUntouched ==
    /\ reads \in {<<>>, <<"version_file">>}
    /\ files.changes.state = "unread"
    /\ pc \notin {"start_mark", "head_match", "check_changes_version",
                  "cut_section", "fix_issues", "show", "write", "done"}
    /\ msg = <<>>
    /\ match = NoMatch

\* As claimed: an unpaired parameter always ends the run with its own error.
C6_AsClaimed ==
    /\ Unpaired => ExtractionUntouched
    /\ (Unpaired /\ Ended) => (pc = "failed" /\ error = FixIssueUnpaired)
    /\ ~Unpaired => error # FixIssueUnpaired

\* The validations a pipeline runs before it tests the pairing.
PassedBeforePairing ==
    /\ VersionResolves
    /\ parse_version(ctx_version).valid
    /\ pipeline = "func" => RefAgrees(env.check_ref, ctx_version)

\* As amended: an unpaired parameter always ends the run before extraction,
\* with its own error unless an earlier validation has failed.
C6_FailsBeforeExtraction ==
    /\ Unpaired => ExtractionUntouched
    /\ (Unpaired /\ Ended) => pc = "failed"
    /\ (Unpaired /\ Ended /\ PassedBeforePairing) => error = FixIssueUnpaired
    /\ (Unpaired /\ Ended /\ ~PassedBeforePairing) => error # FixIssueUnpaired
    /\ ~Unpaired => error # FixIssueUnpaired

C6_Witness ==
    /\ Unpaired
    /\ pipeline = "func"
    /\ env.check_ref # <<>>
    /\ pc = "failed"
    /\ error = FixIssueUnpaired

FuncEnded == pipeline = "func" /\ Ended

\* As claimed: the same outcome on every configuration and changelog.
C8_AsClaimed ==
    (FuncEnded /\ env.head_line_func = env.head_line) => Outcome = class_outcome

\* Both the pairing and the git ref are at fault, and both pipelines get as
\* far as testing them.
BothAtFault ==
    /\ Unpaired
    /\ ~RefAgrees(env.check_ref, ctx_version)
    /\ VersionResolves
    /\ parse_version(ctx_version).valid

\* The run failed before it tried the heading: at version resolution or
\* parsing, the ref check, the pairing, the changes file or the start mark.
FailedBeforeHeading ==
    /\ pc = "failed"
    /\ match = NoMatch
    /\ error # NoHeadMark

\* As amended: the same outcome unless both the pairing and the git ref are
\* at fault (the class-based pipeline then reports the pairing, the
\* function-based one the ref), provided the function-based pipeline's
\* head_line writes \[{version}\] where the class-based one's writes
\* {version}; on one and the same head_line, the same outcome when the run
\* fails before it tries the heading.
C8_SameOutcome ==
    /\ (FuncEnded /\ ~BothAtFault
        /\ env.head_line_func = Bracketed(env.head_line))
          => Outcome = class_outcome
    /\ (FuncEnded /\ ~BothAtFault /\ FailedBeforeHeading)
          => Outcome = class_outcome
    /\ (FuncEnded /\ BothAtFault)
          => (class_outcome.error = FixIssueUnpaired
              /\ error \in {NotATag, TagMismatch})

C8_Witness ==
    /\ FuncEnded
    /\ pc = "done"
    /\ env.head_line_func # env.head_line
    /\ Len(files.changes.sections) = 2
    /\ Outcome = class_outcome

(***************************************************************************)
(* C9  The first heading is matched at the very start of the trimmed text  *)
(* after the first start mark: text before the heading fails the run with  *)
(* "version head mark not found" although a heading follows, and neither   *)
(* the comparison nor the substitution is reached; whitespace before the   *)
(* heading does not; without the start mark the run fails with "start mark *)
(* not found" before any heading is matched.                               *)
(***************************************************************************)
C9_AnchoredHeading ==
    /\ (~files.changes.mark /\ pc # "start_mark")
          => (pc = "failed" /\ error = NoStartMark /\ match = NoMatch)
    /\ (files.changes.mark /\ ~HeadingFirst /\ pc \notin {"start_mark", "head_match"})
          => (pc = "failed" /\ error = NoHeadMark /\ match = NoMatch /\ note = <<>>)
    /\ (HeadingFirst /\ StyleAccepted /\ pc \notin {"start_mark", "head_match"}
        /\ files.changes.sections[1].version # V_1dev1)
          => (error # NoHeadMark
              /\ match.version = files.changes.sections[1].version)

\* Text, then a heading the pipeline would accept: the run has failed.
C9_Witness ==
    /\ pc = "failed"
    /\ error = NoHeadMark
    /\ files.changes.mark
    /\ files.changes.lead = <<"z", "\n">>
    /\ StyleAccepted
    /\ files.changes.sections[1].version = ctx_version

(***************************************************************************)
(* C10  A run that succeeds reports devrelease false: the version it       *)
(* reports is the heading's token, which cannot hold a ".devN" segment;    *)
(* prerelease can be true.                                                 *)
(***************************************************************************)
C10_NeverDevRelease ==
    /\ \A k \in 1..Len(shown) :
          /\ ~shown[k].devrelease
          /\ shown[k].version = match.version
          /\ \A c \in Chars(shown[k].version) : c \in VerChars
    /\ pc \in {"show", "write", "done"} => ~is_devrelease(version)

C10_Witness ==
    /\ pc = "done"
    /\ shown = <<[version |-> V_1a, prerelease |-> TRUE, devrelease |-> FALSE]>>

====
